---- MODULE Spec2Model ----
(***************************************************************************)
(* Model of the Word (OOXML) operations of word_ops.py and word_cli.py:    *)
(* one invocation unpacks the archive at docx_path into a scoped temporary *)
(* directory, loads word/document.xml, resolves a paragraph, mutates the   *)
(* tree, saves, repacks, and leaves the with-block.                        *)
(* The Document library, the archive codec (unpack/pack) and the schema    *)
(* validator are not part of the sources at hand; they are modelled from   *)
(* their specification and marked so in the model map.                     *)
(***************************************************************************)
EXTENDS Integers, Sequences, FiniteSets, TLC

(* ---------------------------- bounds ----------------------------------- *)
\* number of invocations of word_ops main in one behaviour
MaxOps == 2
\* locations passed on the command line range over -1 .. MaxLoc
MaxLoc == 4
\* number of paragraphs of the documents the archives start with
NumParas == 3

Locations == (-1) .. MaxLoc
Texts == {"Hello"}
Authors == {"Claude"}
Initials == {"C"}
\* values random.randint(0, 0xFFFF) is drawn from in the model
RsidDraws == {43981, 65535}

(* ---------------------------- paths ------------------------------------ *)
CT == <<"[Content_Types].xml">>
DOC == <<"word", "document.xml">>
COMMENTS == <<"word", "comments.xml">>
MEDIA == <<"word", "media", "image1.png">>

\* order in which a directory walk meets the files
WalkOrder == <<CT, DOC, COMMENTS, MEDIA>>

UnpackDir == <<"unpacked">>

PackSourceDir == UnpackDir

RsidAttr == "w:rsidRDefault"

(* ---------------------------- bytes and trees -------------------------- *)
Para(t) == [tag |-> "w:p", text |-> t, del |-> FALSE, ref |-> 0, author |-> ""]

ParaTextOf(i) == <<"alpha", "beta", "gamma", "delta", "epsilon", "zeta">>[i]

\* source line of the i-th body element in the files the archives start with
OrigLine(i) == IF i = NumParas THEN i + 1 ELSE i

XmlBytes(attrs, body, lines) ==
    [kind |-> "xml", attrs |-> attrs, body |-> body, lines |-> lines]

BinBytes == [kind |-> "bin", attrs |-> <<>>, body |-> <<>>, lines |-> <<>>]

MalformedBytes == [kind |-> "malformed", attrs |-> <<>>, body |-> <<>>, lines |-> <<>>]

HexDigit(d) == <<"0","1","2","3","4","5","6","7","8","9","A","B","C","D","E","F">>[d + 1]

\* f"{n:04X}"
Hex4(n) ==
    <<HexDigit((n \div 4096) % 16), HexDigit((n \div 256) % 16),
      HexDigit((n \div 16) % 16), HexDigit(n % 16)>>

Parse(bytes) ==
    IF bytes.kind = "xml"
    THEN [ok |-> TRUE, tree |-> [attrs |-> bytes.attrs, body |-> bytes.body],
          lines |-> bytes.lines]
    ELSE [ok |-> FALSE, tree |-> [attrs |-> <<>>, body |-> <<>>], lines |-> <<>>]

\* canonical serialisation: one body element per line, numbered from 1
Serialize(tree) ==
    XmlBytes(tree.attrs, tree.body, [i \in 1 .. Len(tree.body) |-> i])

(* ---------------------------- DOM helpers ------------------------------ *)
AttrIdx(attrs, name) == {i \in 1 .. Len(attrs) : attrs[i].name = name}

HasAttribute(tree, name) == AttrIdx(tree.attrs, name) # {}

GetAttribute(tree, name) ==
    tree.attrs[CHOOSE i \in AttrIdx(tree.attrs, name) : TRUE].value

\* Element.setAttribute: replaces the value of an attribute of that name,
\* appends the attribute otherwise
SetAttribute(tree, name, value) ==
    IF HasAttribute(tree, name)
    THEN [tree EXCEPT !.attrs =
            [i \in 1 .. Len(tree.attrs) |->
                IF tree.attrs[i].name = name
                THEN [name |-> name, value |-> value] ELSE tree.attrs[i]]]
    ELSE [tree EXCEPT !.attrs = Append(tree.attrs, [name |-> name, value |-> value])]

RECURSIVE IdxOfTag(_, _, _)
\* positions in body, in document order, of the elements with the given tag,
\* starting at position i
IdxOfTag(body, tag, i) ==
    IF i > Len(body) THEN <<>>
    ELSE (IF body[i].tag = tag THEN <<i>> ELSE <<>>) \o IdxOfTag(body, tag, i + 1)

\* dom.getElementsByTagName(tag)
GetElementsByTagName(tree, tag) == IdxOfTag(tree.body, tag, 1)

NoNode == 0

\* Python list indexing: a negative index counts from the end, an index
\* outside -n .. n-1 raises IndexError (reported as NoNode - 1)
IndexError == -1

PyIndex(list, i) ==
    IF 0 <= i /\ i < Len(list) THEN list[i + 1]
    ELSE IF i < 0 /\ 0 - i <= Len(list) THEN list[Len(list) + i + 1]
    ELSE IndexError

InsertAt(s, i, x) == SubSeq(s, 1, i - 1) \o <<x>> \o SubSeq(s, i, Len(s))

(* ---------------------------- archive codec ---------------------------- *)
\* An archive is a sequence of entries [path, bytes]; a corrupt archive
\* cannot be opened.
EntryPaths(entries) == {entries[i].path : i \in 1 .. Len(entries)}

HasPrefix(p, pre) == Len(p) > Len(pre) /\ SubSeq(p, 1, Len(pre)) = pre

Rel(p, pre) == SubSeq(p, Len(pre) + 1, Len(p))

\* unpack_document(archive, dest): every entry is extracted under dest; of
\* two entries with one path the later overwrites the earlier
UnpackFiles(entries, dest) ==
    [p \in {dest \o q : q \in EntryPaths(entries)} |->
        LET q == Rel(p, dest)
            last == CHOOSE i \in 1 .. Len(entries) :
                        /\ entries[i].path = q
                        /\ \A j \in (i + 1) .. Len(entries) : entries[j].path # q
        IN  entries[last].bytes]

RelPaths(files, src) == {Rel(p, src) : p \in {f \in DOMAIN files : HasPrefix(f, src)}}

RECURSIVE SetToSeq(_)
SetToSeq(S) ==
    IF S = {} THEN <<>>
    ELSE LET x == CHOOSE y \in S : TRUE IN <<x>> \o SetToSeq(S \ {x})

\* the files below src in the order the walk writes them: the content-types
\* declaration first
WalkSeq(files, src) ==
    LET rel == RelPaths(files, src)
        known == {WalkOrder[i] : i \in 1 .. Len(WalkOrder)}
    IN  SelectSeq(WalkOrder, LAMBDA q : q \in rel) \o SetToSeq(rel \ known)

PackOkAlways(files, src) == TRUE

PackOk(files, src) == CT \in RelPaths(files, src)

\* pack_document(src, archive): one entry per file below src
PackEntries(files, src) ==
    LET w == WalkSeq(files, src)
    IN  [i \in 1 .. Len(w) |-> [path |-> w[i], bytes |-> files[src \o w[i]]]]

(* ---------------------------- part registry ---------------------------- *)
NoFiles == [p \in {} |-> BinBytes]

NoDoc == [open |-> FALSE, dir |-> <<>>, author |-> "", initials |-> "", parts |-> NoFiles]

\* Document(dir, author, initials): binds a registry to dir, parses nothing
DocumentOpen(dir, author, initials) ==
    [open |-> TRUE, dir |-> dir, author |-> author, initials |-> initials,
     parts |-> NoFiles]

PartExists(d, files, lp) == (d.dir \o lp) \in DOMAIN files

PartParses(d, files, lp) == Parse(files[d.dir \o lp]).ok

\* doc[lp]: the part parsed on first access
LoadedPart(d, files, lp) ==
    LET r == Parse(files[d.dir \o lp])
    IN  [tree |-> r.tree, orig |-> r.tree, lines |-> r.lines, new |-> FALSE]

DocumentGet(d, files, lp) ==
    IF lp \in DOMAIN d.parts THEN d
    ELSE [d EXCEPT !.parts =
            [q \in DOMAIN d.parts \cup {lp} |->
                IF q = lp THEN LoadedPart(d, files, lp) ELSE d.parts[q]]]

Dirty(part) == part.new \/ part.tree # part.orig

\* doc.save(): every dirty part is serialised to its file, the others are
\* left as they are on disk
Save(d, files) ==
    LET dirty == {lp \in DOMAIN d.parts : Dirty(d.parts[lp])}
    IN  [p \in DOMAIN files \cup {d.dir \o lp : lp \in dirty} |->
            IF \E lp \in dirty : p = d.dir \o lp
            THEN Serialize(d.parts[Rel(p, d.dir)].tree)
            ELSE files[p]]

(* ---------------------------- node locator ----------------------------- *)
\* doc_xml.get_node(tag, line_number): the element of that tag whose source
\* line is line_number, when the parser kept line metadata
GetNode(part, tag, line, meta) ==
    LET hits == {i \in 1 .. Len(part.tree.body) :
                    /\ part.tree.body[i].tag = tag
                    /\ i <= Len(part.lines)
                    /\ part.lines[i] = line}
    IN  IF meta /\ hits # {} THEN CHOOSE i \in hits : \A j \in hits : i <= j
        ELSE NoNode

IndexInRangeNoLower(location, n) == location < n

IndexInRange(location, n) == 0 <= location /\ location < n

FindParagraphIndexFirst(part, location, meta) ==
    LET byLine == GetNode(part, "w:p", location, meta)
        paragraphs == GetElementsByTagName(part.tree, "w:p")
    IN  IF IndexInRange(location, Len(paragraphs))
        THEN PyIndex(paragraphs, location)
        ELSE byLine

\* word_ops.py: get_node first, then the location-th w:p by index
FindParagraph(part, location, meta) ==
    LET byLine == GetNode(part, "w:p", location, meta)
        paragraphs == GetElementsByTagName(part.tree, "w:p")
    IN  IF byLine # NoNode THEN byLine
        ELSE IF IndexInRange(location, Len(paragraphs))
             THEN PyIndex(paragraphs, location)
             ELSE NoNode

(* ---------------------------- revision engine -------------------------- *)
EnableTrackingAlwaysSet(tree, rsid) == SetAttribute(tree, RsidAttr, Hex4(rsid))

EnableTrackingInverted(tree, rsid) ==
    IF HasAttribute(tree, RsidAttr)
    THEN SetAttribute(tree, RsidAttr, Hex4(rsid))
    ELSE tree

\* enable_tracking: the root gets a session identifier unless it has one
EnableTrackingMutate(tree, rsid) ==
    IF ~HasAttribute(tree, RsidAttr)
    THEN SetAttribute(tree, RsidAttr, Hex4(rsid))
    ELSE tree

RevIds(body) == {body[i].ref : i \in {j \in 1 .. Len(body) :
                    body[j].tag = "w:ins" \/ (body[j].tag = "w:p" /\ body[j].del)}}

\* a revision identifier no tracked change of the body carries
FreshRev(body) ==
    LET used == RevIds(body) \cup {0}
    IN  1 + (CHOOSE m \in used : \A k \in used : k <= m)

\* suggest_insertion(node, text): the text in an insertion-tracking element
\* next to node
SuggestInsertionNode(tree, node, text, author, after) ==
    LET ins == [tag |-> "w:ins", text |-> text, del |-> FALSE,
                ref |-> FreshRev(tree.body), author |-> author]
    IN  [tree EXCEPT !.body = InsertAt(tree.body, IF after THEN node + 1 ELSE node, ins)]

SuggestDeletionRemoves(tree, node, author) ==
    [tree EXCEPT !.body = SubSeq(tree.body, 1, node - 1)
                            \o SubSeq(tree.body, node + 1, Len(tree.body))]

\* suggest_deletion(node): the content of node becomes deleted-text markup,
\* the node stays
SuggestDeletionNode(tree, node, author) ==
    [tree EXCEPT !.body[node] =
        [@ EXCEPT !.del = TRUE, !.ref = FreshRev(tree.body), !.author = author]]

CommentRangeFromFirst(node) == [start |-> 1, end |-> node]

\* word_ops.py add_comment: start=node, end=node
CommentRange(node) == [start |-> node, end |-> node]

EmptyComments == [tree |-> [attrs |-> <<>>, body |-> <<>>],
                  orig |-> [attrs |-> <<>>, body |-> <<>>],
                  lines |-> <<>>, new |-> TRUE]

Marker(tag, cid) == [tag |-> tag, text |-> "", del |-> FALSE, ref |-> cid, author |-> ""]

\* doc.add_comment(start, end, text): one entry in the comments part and
\* range markers before start and after end in the body
AddCommentBody(tree, start, end, cid) ==
    [tree EXCEPT !.body =
        InsertAt(InsertAt(tree.body, end + 1, Marker("w:commentRangeEnd", cid)),
                 start, Marker("w:commentRangeStart", cid))]

AddCommentEntry(ctree, cid, text, author) ==
    [ctree EXCEPT !.body = Append(ctree.body,
        [tag |-> "w:comment", text |-> text, del |-> FALSE, ref |-> cid,
         author |-> author])]

DocumentAddComment(d, files, start, end, text) ==
    LET withC == IF PartExists(d, files, COMMENTS)
                 THEN DocumentGet(d, files, COMMENTS)
                 ELSE [d EXCEPT !.parts =
                        [q \in DOMAIN d.parts \cup {COMMENTS} |->
                            IF q = COMMENTS /\ COMMENTS \notin DOMAIN d.parts
                            THEN EmptyComments ELSE d.parts[q]]]
        cid == Len(withC.parts[COMMENTS].tree.body)
    IN  [withC EXCEPT
            !.parts[COMMENTS].tree = AddCommentEntry(@, cid, text, d.author),
            !.parts[DOC].tree = AddCommentBody(@, start, end, cid)]

(* ---------------------------- validator -------------------------------- *)
RequiredFiles == <<DOC, CT>>

MissingFiles(files, dir) ==
    SelectSeq(RequiredFiles, LAMBDA f : (dir \o f) \notin DOMAIN files)

MalformedRequired(files, dir) ==
    SelectSeq(RequiredFiles,
              LAMBDA f : (dir \o f) \in DOMAIN files /\ ~Parse(files[dir \o f]).ok)

\* DOCXSchemaValidator(dir).validate(): presence and well-formedness of the
\* mandatory parts
SchemaValidate(files, dir) ==
    LET miss == MissingFiles(files, dir)
        bad == MalformedRequired(files, dir)
        errs == (IF miss # <<>> THEN << <<"Missing required files", miss>> >> ELSE <<>>)
                \o (IF bad # <<>> THEN << <<"Malformed XML", bad>> >> ELSE <<>>)
    IN  [valid |-> errs = <<>>, errors |-> errs, warnings |-> <<>>]

(* ---------------------------- results ---------------------------------- *)
NotFoundResult(location) ==
    [success |-> FALSE,
     error |-> <<"Could not find paragraph at location", location>>]

SuccessResult(r) ==
    CASE r.cmd = "add_comment" ->
            [success |-> TRUE, message |-> <<"Comment added at location", r.location>>,
             location |-> r.location, text |-> r.text, author |-> r.author]
      [] r.cmd = "enable_tracking" ->
            [success |-> TRUE, message |-> <<"Revision tracking enabled">>,
             author |-> r.author, initials |-> r.initials]
      [] r.cmd = "suggest_insertion" ->
            [success |-> TRUE, message |-> <<"Insertion suggested at location", r.location>>,
             location |-> r.location, text |-> r.text]
      [] OTHER ->
            [success |-> TRUE, message |-> <<"Deletion suggested at location", r.location>>,
             location |-> r.location]

\* word_ops.validate_document: the dictionary built from the validator's result
ValidateResult(v) ==
    [success |-> v.valid, valid |-> v.valid, errors |-> v.errors,
     warnings |-> IF "warnings" \in DOMAIN v THEN v.warnings ELSE <<>>]

\* word_ops main: sys.exit(1) if result and not result.get("success", True)
ExitCode(result) ==
    IF DOMAIN result # {}
       /\ ~(IF "success" \in DOMAIN result THEN result.success ELSE TRUE)
    THEN 1 ELSE 0

\* word_cli main prints the result and falls off the end
CliExitCode(result) == 0

TempDirLeakOnRaise(cur, how) == IF how = "raise" THEN cur ELSE [exists |-> FALSE, files |-> NoFiles]

\* leaving "with tempfile.TemporaryDirectory()", by return or by exception
TempDirAfterExit(cur, how) == [exists |-> FALSE, files |-> NoFiles]

LocCmds == {"add_comment", "suggest_insertion", "suggest_deletion"}

Cmds == LocCmds \cup {"enable_tracking", "validate"}

MutatingCmds == LocCmds \cup {"enable_tracking"}

StepOrderSaveFirst(cmd) ==
    IF cmd \in LocCmds
    THEN <<"unpack", "open", "load", "locate", "save", "mutate", "pack", "return">>
    ELSE IF cmd = "enable_tracking"
    THEN <<"unpack", "open", "load", "save", "mutate", "pack", "return">>
    ELSE <<"unpack", "validate", "return">>

StepOrderPackFirst(cmd) ==
    IF cmd \in LocCmds
    THEN <<"unpack", "open", "load", "locate", "mutate", "pack", "save", "return">>
    ELSE IF cmd = "enable_tracking"
    THEN <<"unpack", "open", "load", "mutate", "pack", "save", "return">>
    ELSE <<"unpack", "validate", "return">>

\* the statements of an operation's with-block, in program order
StepOrder(cmd) ==
    IF cmd \in LocCmds
    THEN <<"unpack", "open", "load", "locate", "mutate", "save", "pack", "return">>
    ELSE IF cmd = "enable_tracking"
    THEN <<"unpack", "open", "load", "mutate", "save", "pack", "return">>
    ELSE <<"unpack", "validate", "return">>

NextPc(cmd, p) ==
    LET o == StepOrder(cmd)
        i == CHOOSE j \in 1 .. Len(o) : o[j] = p
    IN  o[i + 1]

(* ---------------------------- initial archives ------------------------- *)
OrigBody == [i \in 1 .. NumParas |-> Para(ParaTextOf(i))]

OrigLines == [i \in 1 .. NumParas |-> OrigLine(i)]

OrigRsid == << [name |-> RsidAttr, value |-> Hex4(4779)] >>

CtBytes == XmlBytes(<<>>, <<>>, <<>>)

E(path, bytes) == [path |-> path, bytes |-> bytes]

GoodArchive(attrs) ==
    [corrupt |-> FALSE,
     entries |-> <<E(CT, CtBytes), E(MEDIA, BinBytes),
                   E(DOC, XmlBytes(attrs, OrigBody, OrigLines))>>]

InitArchives ==
    { GoodArchive(<<>>),
      GoodArchive(OrigRsid),
      [corrupt |-> FALSE,
       entries |-> <<E(MEDIA, BinBytes), E(DOC, XmlBytes(<<>>, OrigBody, OrigLines))>>],
      [corrupt |-> FALSE,
       entries |-> <<E(CT, CtBytes), E(MEDIA, BinBytes), E(DOC, MalformedBytes)>>],
      [corrupt |-> FALSE, entries |-> <<E(CT, CtBytes), E(MEDIA, BinBytes)>>],
      [corrupt |-> TRUE, entries |-> <<>>] }

(* ---------------------------- state ------------------------------------ *)
VARIABLES
    archive,    \* the file at docx_path
    pre,        \* the file at docx_path when the running invocation started
    tmp,        \* the temporary directory of the running invocation
    doc,        \* the Document of the running invocation
    node,       \* the paragraph the running invocation resolved
    vres,       \* the validator's result in validate_document
    pc,         \* the statement the running invocation is at
    req,        \* command and arguments of the running invocation
    out,        \* how the last invocation ended: result or exception
    stdout,     \* what word_ops main printed
    exit,       \* exit status of word_ops main
    ops,        \* invocations of word_ops main so far
    lineMeta,   \* whether the XML parser keeps source lines
    cli,        \* last invocation of word_cli main
    disk,       \* concurrent invocations: the archive file at each document path
    tmps,       \* concurrent invocations: the temporary directories, by name
    inv         \* concurrent invocations: locals and position of each process

vars == <<archive, pre, tmp, doc, node, vres, pc, req, out, stdout, exit, ops,
          lineMeta, cli, disk, tmps, inv>>

concVars == <<disk, tmps, inv>>

NoTmp == [exists |-> FALSE, files |-> NoFiles]

NoVres == [valid |-> FALSE, errors |-> <<>>, warnings |-> <<>>]

NoReq == [cmd |-> "none", location |-> 0, text |-> "", author |-> "", initials |-> ""]

\* two word_ops processes started by the caller at the same time
Procs == {1, 2}

DocPaths == {"a.docx", "b.docx"}

\* the archive files the concurrent invocations find
ConcDisk0 ==
    [f \in DocPaths |-> IF f = "a.docx" THEN GoodArchive(<<>>) ELSE GoodArchive(OrigRsid)]

IdleProc ==
    [pc |-> "idle", path |-> "", req |-> NoReq, doc |-> NoDoc, node |-> NoNode,
     out |-> [kind |-> "none", value |-> [success |-> TRUE]]]

Init ==
    /\ archive \in InitArchives
    /\ pre = archive
    /\ tmp = NoTmp
    /\ doc = NoDoc
    /\ node = NoNode
    /\ vres = NoVres
    /\ pc = "idle"
    /\ req = NoReq
    /\ out = [kind |-> "none", value |-> [success |-> TRUE]]
    /\ stdout = <<>>
    /\ exit = 0
    /\ ops = 0
    /\ lineMeta \in BOOLEAN
    /\ cli = [cmd |-> "none", dir |-> NoTmp, out |-> [success |-> TRUE], exit |-> 0]
    /\ disk = ConcDisk0
    /\ tmps = [d \in Procs |-> NoTmp]
    /\ inv = [p \in Procs |-> IdleProc]

(* ---------------------------- word_ops --------------------------------- *)
\* an exception leaves the with-block and main: traceback, exit status 1
Raise(err) ==
    /\ out' = [kind |-> "exception", value |-> [error |-> err]]
    /\ tmp' = TempDirAfterExit(tmp, "raise")
    /\ doc' = NoDoc
    /\ node' = NoNode
    /\ vres' = NoVres
    /\ pc' = "idle"
    /\ stdout' = <<>>
    /\ exit' = 1
    /\ UNCHANGED <<archive, pre, req, ops, lineMeta, cli, disk, tmps, inv>>

\* return of the operation, then print(json.dumps(result)) and the exit
Finish(result) ==
    /\ out' = [kind |-> "result", value |-> result]
    /\ tmp' = TempDirAfterExit(tmp, "return")
    /\ doc' = NoDoc
    /\ node' = NoNode
    /\ vres' = NoVres
    /\ pc' = "idle"
    /\ stdout' = <<result>>
    /\ exit' = ExitCode(result)
    /\ UNCHANGED <<archive, pre, req, ops, lineMeta, cli, disk, tmps, inv>>

Goto(p) == pc' = NextPc(req.cmd, p)

\* main dispatches a command; the operation enters its with-block
Invoke(cmd, location, text, author, initials) ==
    /\ pc = "idle"
    /\ ops < MaxOps
    /\ ops' = ops + 1
    /\ req' = [cmd |-> cmd,
               location |-> IF cmd \in LocCmds THEN location ELSE 0,
               text |-> IF cmd \in {"add_comment", "suggest_insertion"} THEN text ELSE "",
               author |-> IF cmd = "validate" THEN "" ELSE author,
               initials |-> IF cmd = "enable_tracking" THEN initials ELSE ""]
    /\ pre' = archive
    /\ tmp' = [exists |-> TRUE, files |-> NoFiles]
    /\ pc' = StepOrder(cmd)[1]
    /\ out' = [kind |-> "none", value |-> [success |-> TRUE]]
    /\ stdout' = <<>>
    /\ exit' = 0
    /\ UNCHANGED <<archive, doc, node, vres, lineMeta, cli, disk, tmps, inv>>

\* main without a command: print_help and sys.exit(1)
NoCommand ==
    /\ pc = "idle"
    /\ ops < MaxOps
    /\ ops' = ops + 1
    /\ req' = NoReq
    /\ out' = [kind |-> "usage", value |-> [success |-> TRUE]]
    /\ stdout' = <<>>
    /\ exit' = 1
    /\ UNCHANGED <<archive, pre, tmp, doc, node, vres, pc, lineMeta, cli, disk, tmps, inv>>

UnpackStep ==
    /\ pc = "unpack"
    /\ IF archive.corrupt
       THEN Raise("ArchiveCorrupt")
       ELSE /\ tmp' = [tmp EXCEPT !.files = UnpackFiles(archive.entries, UnpackDir)]
            /\ Goto("unpack")
            /\ UNCHANGED <<archive, pre, doc, node, vres, req, out, stdout, exit, ops,
                           lineMeta, cli, disk, tmps, inv>>

OpenStep ==
    /\ pc = "open"
    /\ doc' = DocumentOpen(UnpackDir, req.author, req.initials)
    /\ Goto("open")
    /\ UNCHANGED <<archive, pre, tmp, node, vres, req, out, stdout, exit, ops,
                   lineMeta, cli, disk, tmps, inv>>

LoadStep ==
    /\ pc = "load"
    /\ IF ~PartExists(doc, tmp.files, DOC) THEN Raise("PartNotFound")
       ELSE IF ~PartParses(doc, tmp.files, DOC) THEN Raise("MalformedXml")
       ELSE /\ doc' = DocumentGet(doc, tmp.files, DOC)
            /\ Goto("load")
            /\ UNCHANGED <<archive, pre, tmp, node, vres, req, out, stdout, exit, ops,
                           lineMeta, cli, disk, tmps, inv>>

LocateStep ==
    /\ pc = "locate"
    /\ LET n == FindParagraph(doc.parts[DOC], req.location, lineMeta)
       IN  IF n = IndexError THEN Raise("IndexError")
           ELSE IF n = NoNode THEN Finish(NotFoundResult(req.location))
           ELSE /\ node' = n
                /\ Goto("locate")
                /\ UNCHANGED <<archive, pre, tmp, doc, vres, req, out, stdout, exit,
                               ops, lineMeta, cli, disk, tmps, inv>>

MutateStep ==
    /\ pc = "mutate"
    /\ \/ /\ req.cmd = "enable_tracking"
          /\ \E r \in RsidDraws :
                doc' = [doc EXCEPT !.parts[DOC].tree = EnableTrackingMutate(@, r)]
          /\ Goto("mutate")
          /\ UNCHANGED <<archive, pre, tmp, node, vres, req, out, stdout, exit, ops,
                         lineMeta, cli, disk, tmps, inv>>
       \/ /\ req.cmd = "add_comment"
          /\ LET range == CommentRange(node)
             IN  IF range.end < range.start THEN Raise("InvalidRange")
                 ELSE IF PartExists(doc, tmp.files, COMMENTS)
                         /\ ~PartParses(doc, tmp.files, COMMENTS)
                 THEN Raise("MalformedXml")
                 ELSE /\ doc' = DocumentAddComment(doc, tmp.files, range.start,
                                                   range.end, req.text)
                      /\ Goto("mutate")
                      /\ UNCHANGED <<archive, pre, tmp, node, vres, req, out, stdout,
                                     exit, ops, lineMeta, cli, disk, tmps, inv>>
       \/ /\ req.cmd = "suggest_insertion"
          /\ \E after \in BOOLEAN :
                doc' = [doc EXCEPT !.parts[DOC].tree =
                            SuggestInsertionNode(@, node, req.text, doc.author, after)]
          /\ Goto("mutate")
          /\ UNCHANGED <<archive, pre, tmp, node, vres, req, out, stdout, exit, ops,
                         lineMeta, cli, disk, tmps, inv>>
       \/ /\ req.cmd = "suggest_deletion"
          /\ doc' = [doc EXCEPT !.parts[DOC].tree = SuggestDeletionNode(@, node, doc.author)]
          /\ Goto("mutate")
          /\ UNCHANGED <<archive, pre, tmp, node, vres, req, out, stdout, exit, ops,
                         lineMeta, cli, disk, tmps, inv>>

SaveStep ==
    /\ pc = "save"
    /\ tmp' = [tmp EXCEPT !.files = Save(doc, tmp.files)]
    /\ Goto("save")
    /\ UNCHANGED <<archive, pre, doc, node, vres, req, out, stdout, exit, ops,
                   lineMeta, cli, disk, tmps, inv>>

\* pack_document writes a temporary file and renames it over docx_path
PackStep ==
    /\ pc = "pack"
    /\ IF ~PackOk(tmp.files, PackSourceDir)
       THEN Raise("MissingContentTypes")
       ELSE /\ archive' = [corrupt |-> FALSE,
                           entries |-> PackEntries(tmp.files, PackSourceDir)]
            /\ Goto("pack")
            /\ UNCHANGED <<pre, tmp, doc, node, vres, req, out, stdout, exit, ops,
                           lineMeta, cli, disk, tmps, inv>>

ValidateStep ==
    /\ pc = "validate"
    /\ vres' = SchemaValidate(tmp.files, UnpackDir)
    /\ Goto("validate")
    /\ UNCHANGED <<archive, pre, tmp, doc, node, req, out, stdout, exit, ops,
                   lineMeta, cli, disk, tmps, inv>>

ReturnStep ==
    /\ pc = "return"
    /\ Finish(IF req.cmd = "validate" THEN ValidateResult(vres) ELSE SuccessResult(req))

\* a step fails on the file system
IoFail ==
    /\ pc \in {"unpack", "open", "load", "mutate", "save", "pack", "validate"}
    /\ Raise("IoFailure")

(* ---------------------------- word_cli --------------------------------- *)
DirExists(dir) == dir.exists

\* word_cli.read_document
ReadDocument(dir) ==
    LET d == DocumentOpen(<<>>, "", "")
    IN  IF ~DirExists(dir) THEN [success |-> FALSE, error |-> "IoFailure"]
        ELSE IF ~PartExists(d, dir.files, DOC)
        THEN [success |-> FALSE, error |-> "PartNotFound"]
        ELSE IF ~PartParses(d, dir.files, DOC)
        THEN [success |-> FALSE, error |-> "MalformedXml"]
        ELSE LET tree == DocumentGet(d, dir.files, DOC).parts[DOC].tree
                 paragraphs == GetElementsByTagName(tree, "w:p")
                 shown == SelectSeq([i \in 1 .. Len(paragraphs) |->
                                        [index |-> i - 1,
                                         text |-> IF tree.body[paragraphs[i]].del THEN ""
                                                  ELSE tree.body[paragraphs[i]].text]],
                                    LAMBDA c : c.text # "")
             IN  [success |-> TRUE, content |-> shown]

\* word_cli.validate_document
CliValidateDocument(dir) ==
    IF ~DirExists(dir)
    THEN [success |-> FALSE, valid |-> FALSE, errors |-> <<"IoFailure">>]
    ELSE LET missing_files == MissingFiles(dir.files, <<>>)
         IN  IF missing_files # <<>>
             THEN [success |-> FALSE, valid |-> FALSE,
                   errors |-> << <<"Missing required files", missing_files>> >>]
             ELSE [success |-> TRUE, valid |-> TRUE, errors |-> <<>>, warnings |-> <<>>]

\* directories word_cli is pointed at: none, or the unpacked archive
CliDirs ==
    {NoTmp} \cup (IF archive.corrupt THEN {}
                  ELSE {[exists |-> TRUE, files |-> UnpackFiles(archive.entries, <<>>)]})

CliMain(cmd, dir) ==
    /\ pc = "idle"
    /\ LET result == IF cmd = "read" THEN ReadDocument(dir) ELSE CliValidateDocument(dir)
       IN  cli' = [cmd |-> cmd, dir |-> dir, out |-> result, exit |-> CliExitCode(result)]
    /\ UNCHANGED <<archive, pre, tmp, doc, node, vres, pc, req, out, stdout, exit, ops,
                   lineMeta, disk, tmps, inv>>

Next ==
    \/ \E cmd \in Cmds, location \in Locations, text \in Texts, author \in Authors,
          initials \in Initials : Invoke(cmd, location, text, author, initials)
    \/ NoCommand
    \/ UnpackStep
    \/ OpenStep
    \/ LoadStep
    \/ LocateStep
    \/ MutateStep
    \/ SaveStep
    \/ PackStep
    \/ ValidateStep
    \/ ReturnStep
    \/ IoFail

\* the invocations of word_ops main
Spec == Init /\ [][Next]_vars

CliInvoke == \E cmd \in {"read", "validate"}, dir \in CliDirs : CliMain(cmd, dir)

NextCli == Next \/ CliInvoke

\* word_ops main and, between its invocations, word_cli main
SpecCli == Init /\ [][NextCli]_vars

(* ---------------------------- concurrent invocations ------------------- *)
TempDirNameFixed(p) == 1

\* tempfile.TemporaryDirectory() makes a directory of its own for each
\* invocation
TempDirName(p) == p

TmpOf(p) == tmps[TempDirName(p)]

\* the mutation of the operation, on the Document d of a process
Mutated(d, files, r, n, rsid, after) ==
    CASE r.cmd = "enable_tracking" ->
            [d EXCEPT !.parts[DOC].tree = EnableTrackingMutate(@, rsid)]
      [] r.cmd = "add_comment" ->
            DocumentAddComment(d, files, CommentRange(n).start, CommentRange(n).end, r.text)
      [] r.cmd = "suggest_insertion" ->
            [d EXCEPT !.parts[DOC].tree = SuggestInsertionNode(@, n, r.text, d.author, after)]
      [] OTHER ->
            [d EXCEPT !.parts[DOC].tree = SuggestDeletionNode(@, n, d.author)]

ConcRaise(p, err) ==
    /\ inv' = [inv EXCEPT ![p].pc = "done", ![p].doc = NoDoc, ![p].node = NoNode,
                          ![p].out = [kind |-> "exception", value |-> [error |-> err]]]
    /\ tmps' = [tmps EXCEPT ![TempDirName(p)] = TempDirAfterExit(@, "raise")]
    /\ UNCHANGED disk

ConcFinish(p, result) ==
    /\ inv' = [inv EXCEPT ![p].pc = "done", ![p].doc = NoDoc, ![p].node = NoNode,
                          ![p].out = [kind |-> "result", value |-> result]]
    /\ tmps' = [tmps EXCEPT ![TempDirName(p)] = TempDirAfterExit(@, "return")]
    /\ UNCHANGED disk

ConcGoto(p, d, n) ==
    inv' = [inv EXCEPT ![p].pc = NextPc(inv[p].req.cmd, inv[p].pc),
                       ![p].doc = d, ![p].node = n]

ConcInvoke(p, path, cmd, location, text, author, initials) ==
    /\ inv[p].pc = "idle"
    /\ inv' = [inv EXCEPT ![p].pc = StepOrder(cmd)[1], ![p].path = path,
                  ![p].req = [cmd |-> cmd,
                              location |-> IF cmd \in LocCmds THEN location ELSE 0,
                              text |-> IF cmd \in {"add_comment", "suggest_insertion"}
                                       THEN text ELSE "",
                              author |-> author,
                              initials |-> IF cmd = "enable_tracking" THEN initials ELSE ""]]
    /\ tmps' = [tmps EXCEPT ![TempDirName(p)] =
                    IF @.exists THEN @ ELSE [exists |-> TRUE, files |-> NoFiles]]
    /\ UNCHANGED disk

ConcUnpack(p) ==
    /\ inv[p].pc = "unpack"
    /\ IF disk[inv[p].path].corrupt
       THEN ConcRaise(p, "ArchiveCorrupt")
       ELSE /\ tmps' = [tmps EXCEPT ![TempDirName(p)] =
                    [exists |-> TRUE,
                     files |-> UnpackFiles(disk[inv[p].path].entries, UnpackDir) @@ @.files]]
            /\ ConcGoto(p, inv[p].doc, inv[p].node)
            /\ UNCHANGED disk

ConcOpen(p) ==
    /\ inv[p].pc = "open"
    /\ ConcGoto(p, DocumentOpen(UnpackDir, inv[p].req.author, inv[p].req.initials),
                inv[p].node)
    /\ UNCHANGED <<disk, tmps>>

ConcLoad(p) ==
    /\ inv[p].pc = "load"
    /\ IF ~PartExists(inv[p].doc, TmpOf(p).files, DOC) THEN ConcRaise(p, "PartNotFound")
       ELSE IF ~PartParses(inv[p].doc, TmpOf(p).files, DOC) THEN ConcRaise(p, "MalformedXml")
       ELSE /\ ConcGoto(p, DocumentGet(inv[p].doc, TmpOf(p).files, DOC), inv[p].node)
            /\ UNCHANGED <<disk, tmps>>

ConcLocate(p) ==
    /\ inv[p].pc = "locate"
    /\ LET n == FindParagraph(inv[p].doc.parts[DOC], inv[p].req.location, lineMeta)
       IN  IF n = IndexError THEN ConcRaise(p, "IndexError")
           ELSE IF n = NoNode THEN ConcFinish(p, NotFoundResult(inv[p].req.location))
           ELSE /\ ConcGoto(p, inv[p].doc, n)
                /\ UNCHANGED <<disk, tmps>>

ConcMutate(p) ==
    /\ inv[p].pc = "mutate"
    /\ \E rsid \in RsidDraws, after \in BOOLEAN :
            ConcGoto(p, Mutated(inv[p].doc, TmpOf(p).files, inv[p].req, inv[p].node,
                                rsid, after),
                     inv[p].node)
    /\ UNCHANGED <<disk, tmps>>

ConcSave(p) ==
    /\ inv[p].pc = "save"
    /\ tmps' = [tmps EXCEPT ![TempDirName(p)] =
                    [exists |-> TRUE, files |-> Save(inv[p].doc, @.files)]]
    /\ ConcGoto(p, inv[p].doc, inv[p].node)
    /\ UNCHANGED disk

ConcPack(p) ==
    /\ inv[p].pc = "pack"
    /\ IF ~PackOk(TmpOf(p).files, PackSourceDir)
       THEN ConcRaise(p, "MissingContentTypes")
       ELSE /\ disk' = [disk EXCEPT ![inv[p].path] =
                    [corrupt |-> FALSE,
                     entries |-> PackEntries(TmpOf(p).files, PackSourceDir)]]
            /\ ConcGoto(p, inv[p].doc, inv[p].node)
            /\ UNCHANGED tmps

ConcReturn(p) ==
    /\ inv[p].pc = "return"
    /\ ConcFinish(p, SuccessResult(inv[p].req))

ConcIoFail(p) ==
    /\ inv[p].pc \in {"unpack", "open", "load", "mutate", "save", "pack"}
    /\ ConcRaise(p, "IoFailure")

SeqVars == <<archive, pre, tmp, doc, node, vres, pc, req, out, stdout, exit, ops,
             lineMeta, cli>>

NextConc ==
    \/ \E p \in Procs, path \in DocPaths, cmd \in MutatingCmds, location \in Locations,
          text \in Texts, author \in Authors, initials \in Initials :
            ConcInvoke(p, path, cmd, location, text, author, initials) /\ UNCHANGED SeqVars
    \/ \E p \in Procs : ConcUnpack(p) /\ UNCHANGED SeqVars
    \/ \E p \in Procs : ConcOpen(p) /\ UNCHANGED SeqVars
    \/ \E p \in Procs : ConcLoad(p) /\ UNCHANGED SeqVars
    \/ \E p \in Procs : ConcLocate(p) /\ UNCHANGED SeqVars
    \/ \E p \in Procs : ConcMutate(p) /\ UNCHANGED SeqVars
    \/ \E p \in Procs : ConcSave(p) /\ UNCHANGED SeqVars
    \/ \E p \in Procs : ConcPack(p) /\ UNCHANGED SeqVars
    \/ \E p \in Procs : ConcReturn(p) /\ UNCHANGED SeqVars
    \/ \E p \in Procs : ConcIoFail(p) /\ UNCHANGED SeqVars

InitConc == Init /\ archive = GoodArchive(<<>>)

\* two word_ops processes, each running one mutating operation
SpecConc == InitConc /\ [][NextConc]_vars

(* ---------------------------- properties ------------------------------- *)
\* the last invocation of word_ops main has ended
Done == pc = "idle" /\ out.kind \in {"result", "exception"}

Succeeded == Done /\ out.kind = "result" /\ out.value.success

ArchiveFiles(a) == UnpackFiles(a.entries, <<>>)

DocOk(a) == ~a.corrupt /\ DOC \in EntryPaths(a.entries) /\ Parse(ArchiveFiles(a)[DOC]).ok

DocTreeOf(a) == Parse(ArchiveFiles(a)[DOC]).tree

DocPartOf(a) == LoadedPart(DocumentOpen(<<>>, "", ""), ArchiveFiles(a), DOC)

CommentsOf(a) ==
    IF COMMENTS \in EntryPaths(a.entries)
    THEN Parse(ArchiveFiles(a)[COMMENTS]).tree.body ELSE <<>>

Repacked(a) == ~a.corrupt /\ a.entries = PackEntries(ArchiveFiles(a), <<>>)

\* the mutation the command asks for is in the archive
Committed ==
    /\ DocOk(pre) /\ DocOk(archive)
    /\ Repacked(archive)
    /\ req.cmd = "enable_tracking" => HasAttribute(DocTreeOf(archive), RsidAttr)
    /\ req.cmd \in LocCmds => DocTreeOf(archive) # DocTreeOf(pre)
    /\ req.cmd = "add_comment" => Len(CommentsOf(archive)) = Len(CommentsOf(pre)) + 1

\* C1: a mutating operation ends either with its mutation committed and the
\* archive repacked, or with the archive at docx_path exactly as it was
\* before the invocation, whichever step failed.
AllOrNothing ==
    (Done /\ req.cmd \in MutatingCmds) =>
        /\ Succeeded => Committed
        /\ ~Succeeded => archive = pre

AllOrNothingWitness ==
    /\ Done /\ req.cmd = "suggest_insertion"
    /\ out.kind = "exception" /\ out.value.error = "MissingContentTypes"
    /\ archive = pre

\* C2: when an invocation has returned or unwound, by success, not-found or
\* exception, its temporary directory no longer exists.
TempDirRemoved == pc = "idle" => (~tmp.exists /\ tmp.files = NoFiles)

TempDirRemovedWitness ==
    /\ Done /\ out.kind = "exception" /\ out.value.error = "MalformedXml"
    /\ ~tmp.exists

HasRsid(a) == DocOk(a) /\ HasAttribute(DocTreeOf(a), RsidAttr)

RsidOf(a) == GetAttribute(DocTreeOf(a), RsidAttr)

\* C3: after a successful enable_tracking the root of word/document.xml has
\* exactly one session identifier attribute, and an identifier the root has
\* is never replaced by a later call.
EnableTrackingIdempotent ==
    /\ []((Succeeded /\ req.cmd = "enable_tracking") =>
            (DocOk(archive)
             /\ Cardinality(AttrIdx(DocTreeOf(archive).attrs, RsidAttr)) = 1))
    /\ [][HasRsid(archive) => (HasRsid(archive') /\ RsidOf(archive') = RsidOf(archive))]_vars

EnableTrackingIdempotentWitness ==
    /\ Succeeded /\ req.cmd = "enable_tracking" /\ ops = 2
    /\ HasRsid(pre) /\ RsidOf(pre) # Hex4(4779)
    /\ HasRsid(archive) /\ RsidOf(archive) = RsidOf(pre)

ParaCount(a) == Len(GetElementsByTagName(DocTreeOf(a), "w:p"))

OutOfIndexRange(location, a) == location < 0 \/ location >= ParaCount(a)

\* C4 as claimed: a location that is negative or not below the number of
\* w:p elements makes the operation return the not-found result.
OutOfRangeIsNotFound ==
    (Done /\ req.cmd \in LocCmds /\ out.kind = "result" /\ DocOk(pre)
          /\ OutOfIndexRange(req.location, pre))
        => (out.value = NotFoundResult(req.location) /\ archive = pre)

\* C4 amended: a location for which the line-based lookup finds nothing and
\* which is negative or not below the number of w:p elements makes the
\* operation return the not-found result, no exception escapes the lookup and
\* the archive is unchanged.
UnresolvedIsNotFound ==
    (Done /\ req.cmd \in LocCmds /\ DocOk(pre)
          /\ OutOfIndexRange(req.location, pre)
          /\ GetNode(DocPartOf(pre), "w:p", req.location, lineMeta) = NoNode)
        => /\ archive = pre
           /\ out.kind = "result" => out.value = NotFoundResult(req.location)
           /\ out.kind = "exception" => out.value.error = "IoFailure"

UnresolvedIsNotFoundWitness ==
    /\ Done /\ req.cmd = "suggest_deletion" /\ lineMeta /\ DocOk(pre)
    /\ req.location = ParaCount(pre)
    /\ out.kind = "result" /\ out.value = NotFoundResult(req.location)
    /\ archive = pre

ParaTexts(a) ==
    LET t == DocTreeOf(a)
        ps == GetElementsByTagName(t, "w:p")
    IN  [i \in 1 .. Len(ps) |-> t.body[ps[i]].text]

DeletedParas(a) ==
    LET t == DocTreeOf(a)
        ps == GetElementsByTagName(t, "w:p")
    IN  {i \in 1 .. Len(ps) : t.body[ps[i]].del}

\* C5: a successful suggest_deletion keeps every paragraph and its text, in
\* order; the paragraphs marked deleted stay marked, at least one is marked,
\* and word/document.xml is still well-formed.
DeletionKeepsContent ==
    (Succeeded /\ req.cmd = "suggest_deletion") =>
        /\ DocOk(archive)
        /\ ParaCount(archive) >= ParaCount(pre)
        /\ ParaTexts(archive) = ParaTexts(pre)
        /\ DeletedParas(pre) \subseteq DeletedParas(archive)
        /\ DeletedParas(archive) # {}

DeletionKeepsContentWitness ==
    /\ Succeeded /\ req.cmd = "suggest_deletion" /\ ops = 2
    /\ Cardinality(DeletedParas(archive)) = 2
    /\ ParaCount(archive) = NumParas

\* C6: a successful add_comment adds one entry to the comments part and one
\* start/end marker pair around the resolved paragraph only; every other
\* element of the body and every other part is as before.
AddCommentFrame ==
    (Succeeded /\ req.cmd = "add_comment") =>
        LET b0 == DocTreeOf(pre).body
            b == DocTreeOf(archive).body
            k == FindParagraph(DocPartOf(pre), req.location, lineMeta)
            c0 == CommentsOf(pre)
            c == CommentsOf(archive)
        IN  /\ Len(c) = Len(c0) + 1
            /\ SubSeq(c, 1, Len(c0)) = c0
            /\ c[Len(c)].tag = "w:comment" /\ c[Len(c)].text = req.text
            /\ Len(b) = Len(b0) + 2
            /\ \A i \in 1 .. (k - 1) : b[i] = b0[i]
            /\ b[k] = Marker("w:commentRangeStart", c[Len(c)].ref)
            /\ b[k + 1] = b0[k] /\ b0[k].tag = "w:p"
            /\ b[k + 2] = Marker("w:commentRangeEnd", c[Len(c)].ref)
            /\ \A i \in (k + 1) .. Len(b0) : b[i + 2] = b0[i]
            /\ DocTreeOf(archive).attrs = DocTreeOf(pre).attrs
            /\ \A p \in EntryPaths(pre.entries) \ {DOC, COMMENTS} :
                    ArchiveFiles(archive)[p] = ArchiveFiles(pre)[p]

AddCommentFrameWitness ==
    /\ Succeeded /\ req.cmd = "add_comment" /\ ops = 1 /\ ~lineMeta
    /\ req.location = 1
    /\ COMMENTS \notin EntryPaths(pre.entries)
    /\ Len(CommentsOf(archive)) = 1
    /\ DocTreeOf(archive).body[1] = Para(ParaTextOf(1))
    /\ DocTreeOf(archive).body[2].tag = "w:commentRangeStart"
    /\ DocTreeOf(archive).body[3] = Para(ParaTextOf(2))
    /\ DocTreeOf(archive).body[4].tag = "w:commentRangeEnd"
    /\ DocTreeOf(archive).body[5] = Para(ParaTextOf(3))

\* C7: a CLI shell exits non-zero exactly when the JSON object it printed
\* has success = false.
ExitStatusMatchesSuccess ==
    /\ (Done /\ stdout # <<>>) => ((exit # 0) <=> ~stdout[1].success)
    /\ cli.cmd # "none" => ((cli.exit # 0) <=> ~cli.out.success)

ValidationFields == {"success", "valid", "errors", "warnings"}

\* C8: every result of a validation operation has success, valid, errors and
\* warnings, with success equal to valid.
ValidationResultComplete ==
    /\ (Done /\ req.cmd = "validate" /\ out.kind = "result") =>
            (ValidationFields \subseteq DOMAIN out.value
             /\ out.value.success = out.value.valid)
    /\ cli.cmd = "validate" =>
            (ValidationFields \subseteq DOMAIN cli.out
             /\ cli.out.success = cli.out.valid)

BothPartsWellFormed(dir) ==
    /\ dir.exists
    /\ \A f \in {DOC, CT} : f \in DOMAIN dir.files /\ Parse(dir.files[f]).ok

\* C9: validate(unpackedDir) returns valid with no errors exactly when both
\* mandatory parts exist and are well-formed, and invalid with errors otherwise.
ValidateIffPresentAndWellFormed ==
    cli.cmd = "validate" =>
        /\ (cli.out.valid /\ cli.out.errors = <<>>) <=> BothPartsWellFormed(cli.dir)
        /\ ~BothPartsWellFormed(cli.dir) => (~cli.out.valid /\ cli.out.errors # <<>>)

\* the parts the edit of the last invocation touched
Touched ==
    CASE req.cmd = "add_comment" -> {DOC, COMMENTS}
      [] req.cmd \in {"suggest_insertion", "suggest_deletion"} -> {DOC}
      [] req.cmd = "enable_tracking" -> IF HasRsid(pre) THEN {} ELSE {DOC}
      [] OTHER -> {}

Created == IF req.cmd = "add_comment" THEN {COMMENTS} ELSE {}

\* C10: after a session that repacked, every part no edit touched has the
\* bytes it had under the same path, and the archive has no duplicate path
\* and exactly the original paths plus the parts an edit created.
RoundTrip ==
    (Succeeded /\ req.cmd \in MutatingCmds) =>
        /\ ~archive.corrupt
        /\ Cardinality(EntryPaths(archive.entries)) = Len(archive.entries)
        /\ EntryPaths(archive.entries) = EntryPaths(pre.entries) \cup Created
        /\ \A p \in EntryPaths(pre.entries) \ Touched :
                ArchiveFiles(archive)[p] = ArchiveFiles(pre)[p]

RoundTripWitness ==
    /\ Succeeded /\ req.cmd = "enable_tracking" /\ HasRsid(pre)
    /\ archive # pre
    /\ ArchiveFiles(archive)[DOC] = ArchiveFiles(pre)[DOC]
    /\ ArchiveFiles(archive)[DOC].lines # Serialize(DocTreeOf(pre)).lines

\* C11: pack on a directory without the content-types declaration fails
\* with MissingContentTypes (unless the file system fails first) and the
\* archive at docx_path keeps the bytes it had.
PackWithoutContentTypesFails ==
    /\ [][(pc = "pack" /\ ~(CT \in RelPaths(tmp.files, PackSourceDir))) =>
            /\ archive' = archive
            /\ pc' = "idle" /\ out'.kind = "exception"
            /\ out'.value.error \in {"MissingContentTypes", "IoFailure"}]_vars
    /\ []((Done /\ out.kind = "exception" /\ out.value.error = "MissingContentTypes")
            => (archive = pre /\ CT \notin EntryPaths(archive.entries)))

PackWithoutContentTypesFailsWitness ==
    /\ Done /\ req.cmd = "add_comment"
    /\ out.kind = "exception" /\ out.value.error = "MissingContentTypes"
    /\ archive = pre /\ ~archive.corrupt /\ Len(archive.entries) > 0
    /\ CT \notin EntryPaths(archive.entries)

\* C13: every failure of a mutating operation run through word_ops main is
\* printed as one JSON object with success = false and an error string.
FailuresAreStructured ==
    (Done /\ req.cmd \in MutatingCmds /\ ~Succeeded) =>
        /\ Len(stdout) = 1
        /\ "success" \in DOMAIN stdout[1] /\ ~stdout[1].success
        /\ "error" \in DOMAIN stdout[1]

\* every dirty part of the Document is on disk in its serialised form
SavedOnDisk ==
    \A lp \in DOMAIN doc.parts :
        Dirty(doc.parts[lp]) =>
            /\ (doc.dir \o lp) \in DOMAIN tmp.files
            /\ tmp.files[doc.dir \o lp] = Serialize(doc.parts[lp].tree)

\* C14: in a mutating operation pack runs only after save has completed,
\* save only after the target was resolved and the tree mutated, success is
\* returned only after pack has completed, and the scratch directory is
\* discarded last.
StepsInOrder ==
    /\ [](req.cmd \in MutatingCmds =>
            /\ pc \in {"open", "load", "locate", "mutate", "save", "pack", "return"}
                    => (tmp.exists /\ tmp.files # NoFiles)
            /\ pc \in {"load", "locate", "mutate", "save", "pack", "return"} => doc.open
            /\ pc \in {"locate", "mutate", "save", "pack", "return"}
                    => DOC \in DOMAIN doc.parts
            /\ (pc \in {"mutate", "save", "pack", "return"} /\ req.cmd \in LocCmds)
                    => node # NoNode
            /\ (pc \in {"save", "pack", "return"} /\ req.cmd \in LocCmds)
                    => Dirty(doc.parts[DOC])
            /\ pc \in {"pack", "return"} => SavedOnDisk
            /\ pc = "return" =>
                    archive = [corrupt |-> FALSE,
                               entries |-> PackEntries(tmp.files, UnpackDir)])
    /\ [][(req.cmd \in MutatingCmds /\ pc # "idle" /\ pc' = "idle"
                /\ out'.kind = "result" /\ out'.value.success)
            => (pc = "return" /\ tmp.exists /\ ~tmp'.exists)]_vars
    /\ [][(req.cmd \in MutatingCmds /\ pc \notin {"idle", "pack"}) =>
            archive' = archive]_vars

StepsInOrderWitness ==
    /\ pc = "return" /\ req.cmd = "suggest_deletion"
    /\ tmp.exists /\ SavedOnDisk /\ Dirty(doc.parts[DOC])
    /\ archive # pre
    /\ archive.entries = PackEntries(tmp.files, UnpackDir)

\* C15: a node the line-based lookup finds is the target; when it finds
\* none and 0 <= location < number of w:p elements the target is the
\* location-th w:p element in document order.
IndexFallbackOnlyWhenNoLineHit ==
    (pc = "mutate" /\ req.cmd \in LocCmds) =>
        LET part == doc.parts[DOC]
            byLine == GetNode(part, "w:p", req.location, lineMeta)
            paragraphs == GetElementsByTagName(part.tree, "w:p")
        IN  /\ byLine # NoNode => node = byLine
            /\ (byLine = NoNode /\ 0 <= req.location /\ req.location < Len(paragraphs))
                    => node = paragraphs[req.location + 1]
            /\ part.tree.body[node].tag = "w:p"

IndexFallbackOnlyWhenNoLineHitWitness ==
    /\ pc = "mutate" /\ req.cmd = "suggest_insertion" /\ lineMeta /\ ops = 2
    /\ req.location = 0 /\ node = 2
    /\ doc.parts[DOC].tree.body[1].tag = "w:commentRangeStart"
    /\ GetNode(doc.parts[DOC], "w:p", req.location, lineMeta) = NoNode

\* the archive an invocation leaves when it runs alone on archive a
Solo(a, r, meta, rsid, after) ==
    LET files == UnpackFiles(a.entries, UnpackDir)
        d == DocumentGet(DocumentOpen(UnpackDir, r.author, r.initials), files, DOC)
        n == FindParagraph(d.parts[DOC], r.location, meta)
        saved == Save(Mutated(d, files, r, n, rsid, after), files)
    IN  [corrupt |-> FALSE, entries |-> PackEntries(saved, PackSourceDir)]

SoloResult(a, r, meta) ==
    IF r.cmd \in LocCmds /\ FindParagraph(DocPartOf(a), r.location, meta) = NoNode
    THEN NotFoundResult(r.location) ELSE SuccessResult(r)

ConcSucceeded(p) == inv[p].pc = "done" /\ inv[p].out.kind = "result" /\ inv[p].out.value.success

\* C12: when two concurrent invocations on different document paths have
\* ended, each archive is what its invocation leaves when run alone, each
\* result is the one it returns alone, and no temporary directory is left.
DifferentPathsIsolated ==
    ((\A q \in Procs : inv[q].pc = "done") /\ inv[1].path # inv[2].path) =>
        /\ \A p \in Procs :
            LET a0 == ConcDisk0[inv[p].path]
            IN  /\ IF ConcSucceeded(p)
                   THEN \E rsid \in RsidDraws, after \in BOOLEAN :
                            disk[inv[p].path] = Solo(a0, inv[p].req, lineMeta, rsid, after)
                   ELSE disk[inv[p].path] = a0
                /\ inv[p].out.kind = "result"
                        => inv[p].out.value = SoloResult(a0, inv[p].req, lineMeta)
                /\ inv[p].out.kind = "exception" => inv[p].out.value.error = "IoFailure"
        /\ \A d \in Procs : ~tmps[d].exists

\* on one document path the comment process 1 committed and reported is
\* overwritten by the repack of process 2
SamePathLostUpdate ==
    /\ \A q \in Procs : ConcSucceeded(q)
    /\ inv[1].path = inv[2].path
    /\ inv[1].req.cmd = "add_comment" /\ inv[2].req.cmd = "suggest_deletion"
    /\ CommentsOf(disk[inv[1].path]) = <<>>
    /\ DeletedParas(disk[inv[1].path]) # {}

====
